---------------------------- MODULE Spec2Model ----------------------------
(* A model of src/main.py: the retrying scraper (scrape_site), the thread  *)
(* pool batch (batch_scrape), the address extractor (extract_address), the *)
(* fuzzy matcher (string_similarity, best_match) and the query endpoint    *)
(* (company_search).                                                       *)
(*                                                                         *)
(* Strings are sequences of tokens.  A page body is a sequence over        *)
(* {"ws", "ch", "rej"}: a whitespace character, an ordinary character, and *)
(* a markup declaration that html.parser refuses (such as "<![x"), which   *)
(* makes BeautifulSoup(html, 'html.parser') raise inside the try block.    *)
EXTENDS Integers, Sequences, FiniteSets, TLC

VARIABLES
    pipe,        \* scrape_site: its locals (domain, urls, loop indices, last_err, result)
    fetched,     \* history: the requests.get calls made, in order
    sawBody,     \* history: some response had a body that is non-empty after strip()
    sawParsed,   \* history: some such body was parsed and extracted without raising
    raisedAll,   \* history: <<>> or <<message of the most recent exception caught>>
    raisedGet,   \* history: <<>> or <<message of the most recent exception of requests.get>>
    blankSince,  \* history: an empty body was received after the most recent exception
    websites,    \* batch_scrape: the list of domains
    max_workers, \* batch_scrape: the width of the thread pool
    tasks,       \* batch_scrape: per submitted future, its state and its scrape_site call
    results,     \* batch_scrape: the list the futures' results are appended to
    bpc,         \* batch_scrape: "collect" in the as_completed loop, then "returned"
    PROFILES,    \* the profile collection load_profiles read at startup
    query,       \* company_search: the query built from the request's parameters
    ret,         \* company_search: what best_match returned (or that it raised)
    resp,        \* company_search: the HTTP response
    mpc,         \* company_search: "ready" before the request, then "done"
    soup,        \* extract_address: the parsed page
    addr,        \* extract_address: the value returned
    apc          \* extract_address: "ready" before the call, then "done"

scrapeVars == <<pipe, fetched, sawBody, sawParsed, raisedAll, raisedGet, blankSince>>
batchVars == <<websites, max_workers, tasks, results, bpc>>
matchVars == <<PROFILES, query, ret, resp, mpc>>
addrVars == <<soup, addr, apc>>
vars == <<scrapeVars, batchVars, matchVars, addrVars>>

-----------------------------------------------------------------------------
(* Bounds of the model *)
MaxBodyLen == 2
MaxDomains == 2
MaxWorkers == 2
MaxProfiles == 2
MaxTags == 2

(* Program constants *)
SCRAPE_CHUNK_SIZE == 100000
MaxAttempts == 3
NumUserAgents == 4
FOOTER_MIN == 15
ADDRESS_MIN == 10
TEXT_MAX == 250

-----------------------------------------------------------------------------
(* Inputs *)

\* Raw domain strings given to scrape_site (tokens: a scheme, a host name, "/").
Domains == { <<"abc.com">>,
             <<"https://", "abc.com", "/">>,
             <<"http://", "xyz.org">> }

\* str(e) of the exceptions requests.get can raise; an exception can carry no message.
ErrMsgs == {"", "timeout", "refused"}

BodyChars == {"ws", "ch", "rej"}

SeqsUpTo(S, n) == UNION { [1..k -> S] : k \in 0..n }

Bodies == SeqsUpTo(BodyChars, MaxBodyLen)

\* What one execution of the try block's requests.get does.
Outcomes == [kind : {"raise"}, msg : ErrMsgs] \cup [kind : {"resp"}, text : Bodies]

-----------------------------------------------------------------------------
(* scrape_site *)

RECURSIVE RemoveAll(_, _)
\* s.replace(tok, '')
RemoveAll(s, tok) ==
    IF s = <<>> THEN <<>>
    ELSE IF Head(s) = tok THEN RemoveAll(Tail(s), tok)
    ELSE <<Head(s)>> \o RemoveAll(Tail(s), tok)

RECURSIVE LStrip(_, _)
LStrip(s, c) == IF s # <<>> /\ Head(s) = c THEN LStrip(Tail(s), c) ELSE s

RECURSIVE RStrip(_, _)
RStrip(s, c) ==
    IF s # <<>> /\ s[Len(s)] = c THEN RStrip(SubSeq(s, 1, Len(s) - 1), c) ELSE s

\* s.strip(c); s.strip() is StripChar(s, "ws")
StripChar(s, c) == RStrip(LStrip(s, c), c)

\* s[:n]
Take(s, n) == SubSeq(s, 1, IF Len(s) < n THEN Len(s) ELSE n)

\* domain.replace('http://', '').replace('https://', '').strip('/')
CleanDomain(domain) == StripChar(RemoveAll(RemoveAll(domain, "http://"), "https://"), "/")

UrlsToTry_SchemeOuter(domain) ==
    LET d == CleanDomain(domain)
    IN  << <<"https://">> \o d,
           <<"https://", "www.">> \o d,
           <<"http://">> \o d,
           <<"http://", "www.">> \o d >>

\* urls_to_try: for base in ['', 'www.']: https://base+d, http://base+d
UrlsToTry(domain) ==
    LET d == CleanDomain(domain)
    IN  << <<"https://">> \o d,
           <<"http://">> \o d,
           <<"https://", "www.">> \o d,
           <<"http://", "www.">> \o d >>

\* BeautifulSoup(html, 'html.parser') and the three extractors raise on this page.
ParserRejects(html) == \E k \in 1..Len(html) : html[k] = "rej"

\* str(e) of the exception the parser raises
ParseErrMsg == "rejected"

\* The state of scrape_site on entry to its loops (lines 88-108).
ScrapeStart(domain) ==
    [ domain   |-> domain,
      urls     |-> UrlsToTry(domain),
      u        |-> 1,
      attempt  |-> 0,
      last_err |-> "",
      result   |-> [domain |-> domain, status |-> "fail"],
      pc       |-> "try" ]

\* The request of the current loop iteration: URL, attempt index, user agent index.
CurrentFetch(p) ==
    [ url |-> p.urls[p.u], attempt |-> p.attempt, ua |-> p.attempt % NumUserAgents ]

NextIteration_KeepFirst(p, err) ==
    LET e == IF p.last_err # "" THEN p.last_err ELSE err
    IN  IF p.attempt + 1 < MaxAttempts
        THEN [p EXCEPT !.attempt = p.attempt + 1, !.last_err = e]
        ELSE IF p.u < Len(p.urls)
        THEN [p EXCEPT !.u = p.u + 1, !.attempt = 0, !.last_err = e]
        ELSE [p EXCEPT !.last_err = e,
                       !.pc = "returned",
                       !.result = [domain |-> p.domain, status |-> "fail",
                                   error  |-> IF e # "" THEN e ELSE "unknown"]]

\* The loops move on: the next attempt, the next URL, or lines 131-132.
NextIteration(p, err) ==
    IF p.attempt + 1 < MaxAttempts
    THEN [p EXCEPT !.attempt = p.attempt + 1, !.last_err = err]
    ELSE IF p.u < Len(p.urls)
    THEN [p EXCEPT !.u = p.u + 1, !.attempt = 0, !.last_err = err]
    ELSE [p EXCEPT !.last_err = err,
                   !.pc = "returned",
                   !.result = [domain |-> p.domain, status |-> "fail",
                               error  |-> IF err # "" THEN err ELSE "unknown"]]

ScrapeStep_NoBlankCheck(p, o) ==
    IF o.kind = "raise"
    THEN NextIteration(p, o.msg)
    ELSE IF o.text = <<>>
    THEN NextIteration(p, p.last_err)
    ELSE IF ParserRejects(Take(o.text, SCRAPE_CHUNK_SIZE))
    THEN NextIteration(p, ParseErrMsg)
    ELSE [p EXCEPT !.pc = "returned",
                   !.result = [domain |-> p.domain, status |-> "ok"]]

\* One iteration of the inner loop (lines 110-130) with outcome o of requests.get.
ScrapeStep(p, o) ==
    IF o.kind = "raise"
    THEN NextIteration(p, o.msg)
    ELSE IF StripChar(o.text, "ws") = <<>>
    THEN NextIteration(p, p.last_err)
    ELSE IF ParserRejects(Take(o.text, SCRAPE_CHUNK_SIZE))
    THEN NextIteration(p, ParseErrMsg)
    ELSE [p EXCEPT !.pc = "returned",
                   !.result = [domain |-> p.domain, status |-> "ok"]]

-----------------------------------------------------------------------------
(* Specification of one scrape_site call *)

ScrapeIdle ==
    /\ pipe = [pc |-> "idle"]
    /\ fetched = <<>>
    /\ sawBody = FALSE
    /\ sawParsed = FALSE
    /\ raisedAll = <<>>
    /\ raisedGet = <<>>
    /\ blankSince = FALSE

BatchIdle ==
    /\ websites = <<>>
    /\ max_workers = 0
    /\ tasks = <<>>
    /\ results = <<>>
    /\ bpc = "idle"

MatchIdle ==
    /\ PROFILES = <<>>
    /\ query = <<>>
    /\ ret = <<>>
    /\ resp = <<>>
    /\ mpc = "idle"

AddrIdle ==
    /\ soup = <<>>
    /\ addr = <<>>
    /\ apc = "idle"

ScrapeInit ==
    /\ BatchIdle
    /\ MatchIdle
    /\ AddrIdle
    /\ pipe \in { ScrapeStart(d) : d \in Domains }
    /\ fetched = <<>>
    /\ sawBody = FALSE
    /\ sawParsed = FALSE
    /\ raisedAll = <<>>
    /\ raisedGet = <<>>
    /\ blankSince = FALSE

NonEmptyBody(o) == o.kind = "resp" /\ StripChar(o.text, "ws") # <<>>

Rejected(o) == NonEmptyBody(o) /\ ParserRejects(Take(o.text, SCRAPE_CHUNK_SIZE))

Trial(o) ==
    /\ pipe.pc = "try"
    /\ pipe' = ScrapeStep(pipe, o)
    /\ fetched' = Append(fetched, CurrentFetch(pipe))
    /\ sawBody' = (sawBody \/ NonEmptyBody(o))
    /\ sawParsed' = (sawParsed \/ (NonEmptyBody(o) /\ ~Rejected(o)))
    /\ raisedAll' = IF o.kind = "raise" THEN <<o.msg>>
                    ELSE IF Rejected(o) THEN <<ParseErrMsg>>
                    ELSE raisedAll
    /\ raisedGet' = IF o.kind = "raise" THEN <<o.msg>> ELSE raisedGet
    /\ blankSince' = IF o.kind = "raise" \/ Rejected(o) THEN FALSE
                     ELSE blankSince \/ (raisedAll # <<>> /\ ~NonEmptyBody(o))
    /\ UNCHANGED <<batchVars, matchVars, addrVars>>

ScrapeNext == \E o \in Outcomes : Trial(o)

SpecScrape == ScrapeInit /\ [][ScrapeNext]_vars

-----------------------------------------------------------------------------
(* Claims about scrape_site *)

Returned == pipe.pc = "returned"

\* C3 (as stated): the returned profile has status 'ok' if and only if some
\* candidate/trial returned a body that is non-empty after trimming whitespace;
\* otherwise the status is 'fail'.
C3_OkIffNonEmptyBody ==
    Returned => /\ pipe.result.status \in {"ok", "fail"}
                /\ (pipe.result.status = "ok" <=> sawBody)

\* C3 (amended): the returned profile has status 'ok' if and only if some
\* candidate/trial returned a body that is non-empty after trimming whitespace and
\* whose parsing and extraction did not raise; otherwise the status is 'fail'.
C3_OkIffBodyParsed ==
    Returned => /\ pipe.result.status \in {"ok", "fail"}
                /\ (pipe.result.status = "ok" <=> sawParsed)

\* A success on a later trial, after earlier trials failed.
C3_Witness ==
    Returned /\ pipe.result.status = "ok" /\ sawParsed /\ Len(fetched) > 1

\* C5 (as stated): on exhaustion the error field is the message of the most
\* recently raised fetch exception, and it is "unknown" exactly when no exception
\* was ever raised.
C5_ErrorIsLastFetchError ==
    (Returned /\ pipe.result.status = "fail") =>
        /\ "error" \in DOMAIN pipe.result
        /\ pipe.result.error = (IF raisedGet = <<>> THEN "unknown" ELSE raisedGet[1])
        /\ (pipe.result.error = "unknown" <=> raisedGet = <<>>)

\* C5 (amended): on exhaustion the error field is the message of the exception
\* most recently caught in any trial (raised by the fetch or by the processing of
\* a fetched body) when that message is non-empty; an empty body does not clear
\* it; it is "unknown" when no exception was caught or that message is empty.
C5_ErrorIsLastCaughtMessage ==
    (Returned /\ pipe.result.status = "fail") =>
        /\ "error" \in DOMAIN pipe.result
        /\ pipe.result.error =
              (IF raisedAll # <<>> /\ raisedAll[1] # "" THEN raisedAll[1] ELSE "unknown")

\* Exhaustion with an empty body received after the last exception.
C5_Witness ==
    /\ Returned
    /\ pipe.result.status = "fail"
    /\ blankSince
    /\ raisedAll = <<"timeout">>
    /\ pipe.result.error = "timeout"

\* The host name each input domain stands for.
HostOf(d) ==
    CASE d = <<"abc.com">> -> <<"abc.com">>
      [] d = <<"https://", "abc.com", "/">> -> <<"abc.com">>
      [] d = <<"http://", "xyz.org">> -> <<"xyz.org">>

\* The fixed 12-element ladder: https-bare, http-bare, https-www, http-www, each
\* with attempts 0, 1, 2 and client identity attempt mod 4.
Ladder(d) ==
    LET prefix == << <<"https://">>, <<"http://">>,
                     <<"https://", "www.">>, <<"http://", "www.">> >>
    IN  [k \in 1..12 |->
            [url     |-> prefix[((k - 1) \div 3) + 1] \o HostOf(d),
             attempt |-> (k - 1) % 3,
             ua      |-> ((k - 1) % 3) % 4]]

IsLadderPrefix ==
    /\ Len(fetched) <= 12
    /\ fetched = SubSeq(Ladder(pipe.domain), 1, Len(fetched))

\* C10 (as stated): the attempts are a prefix of the ladder; the ladder stops
\* immediately after the first attempt that returns a non-empty body, and
\* otherwise runs all 12 attempts and terminates with failure.
C10_StopsAtFirstNonEmptyBody ==
    /\ IsLadderPrefix
    /\ pipe.pc = "try" => ~sawBody
    /\ Returned => \/ sawBody /\ pipe.result.status = "ok"
                   \/ ~sawBody /\ Len(fetched) = 12 /\ pipe.result.status = "fail"

\* C10 (amended): the attempts are a prefix of the ladder; the ladder stops
\* immediately after the first attempt that returns a non-empty body whose parsing
\* and extraction do not raise, and otherwise runs all 12 attempts and terminates
\* with failure.
C10_StopsAtFirstParsedBody ==
    /\ IsLadderPrefix
    /\ pipe.pc = "try" => ~sawParsed
    /\ Returned => \/ sawParsed /\ pipe.result.status = "ok"
                   \/ ~sawParsed /\ Len(fetched) = 12 /\ pipe.result.status = "fail"

\* A call that stopped in the middle of the third candidate.
C10_Witness ==
    /\ Returned
    /\ pipe.result.status = "ok"
    /\ Len(fetched) = 8
    /\ fetched[8].url = <<"https://", "www.", "abc.com">>
    /\ fetched[8].ua = 1

-----------------------------------------------------------------------------
(* batch_scrape *)

\* Domains of a batch; the same domain may occur twice.
BatchDomains == { <<"abc.com">>, <<"http://", "xyz.org">> }

\* What requests.get does in a worker thread.
BatchOutcomes ==
    { [kind |-> "raise", msg |-> "timeout"],
      [kind |-> "resp", text |-> <<>>],
      [kind |-> "resp", text |-> <<"ch">>],
      [kind |-> "resp", text |-> <<"rej">>] }

\* executor.submit(scrape_site, url) for url in websites (line 137)
Submitted(ws) == [i \in 1..Len(ws) |-> [state |-> "queued", p |-> ScrapeStart(ws[i])]]

Running(ts) == { i \in 1..Len(ts) : ts[i].state = "running" }

Queued(ts) == { i \in 1..Len(ts) : ts[i].state = "queued" }

Collected_OkOnly(rs, t) == IF t.result.status = "ok" THEN Append(rs, t.result) ELSE rs

\* results.append(future.result()) (line 139)
Collected(rs, t) == Append(rs, t.result)

\* The future of a scrape_site call after one more iteration: still running with the
\* call's locals, or done and holding the value returned.
FutureAfter(q) ==
    IF q.pc = "returned"
    THEN [state |-> "finished", result |-> q.result]
    ELSE [state |-> "running", p |-> q]

BatchInit ==
    /\ ScrapeIdle
    /\ MatchIdle
    /\ AddrIdle
    /\ websites \in SeqsUpTo(BatchDomains, MaxDomains)
    /\ max_workers \in 1..MaxWorkers
    /\ tasks = Submitted(websites)
    /\ results = <<>>
    /\ bpc = "collect"

\* A free worker thread takes the oldest queued work item.
WorkerTake(i) ==
    /\ i \in Queued(tasks)
    /\ \A j \in Queued(tasks) : i <= j
    /\ Cardinality(Running(tasks)) < max_workers
    /\ tasks' = [tasks EXCEPT ![i].state = "running"]
    /\ UNCHANGED <<websites, max_workers, results, bpc, scrapeVars, matchVars, addrVars>>

\* A worker thread runs one iteration of scrape_site's loop; on return the future is done.
WorkerTrial(i, o) ==
    /\ i \in Running(tasks)
    /\ tasks' = [tasks EXCEPT ![i] = FutureAfter(ScrapeStep(tasks[i].p, o))]
    /\ UNCHANGED <<websites, max_workers, results, bpc, scrapeVars, matchVars, addrVars>>

\* as_completed yields a finished future, in no particular order among the finished.
Collect(i) ==
    /\ bpc = "collect"
    /\ i \in 1..Len(tasks)
    /\ tasks[i].state = "finished"
    /\ results' = Collected(results, tasks[i])
    /\ tasks' = [tasks EXCEPT ![i].state = "collected"]
    /\ UNCHANGED <<websites, max_workers, bpc, scrapeVars, matchVars, addrVars>>

\* as_completed is exhausted, the executor is shut down, results is returned.
BatchReturn ==
    /\ bpc = "collect"
    /\ \A i \in 1..Len(tasks) : tasks[i].state = "collected"
    /\ bpc' = "returned"
    /\ UNCHANGED <<websites, max_workers, tasks, results, scrapeVars, matchVars, addrVars>>

BatchNext ==
    \/ \E i \in 1..Len(tasks) : WorkerTake(i)
    \/ \E i \in 1..Len(tasks), o \in BatchOutcomes : WorkerTrial(i, o)
    \/ \E i \in 1..Len(tasks) : Collect(i)
    \/ BatchReturn

SpecBatch == BatchInit /\ [][BatchNext]_vars

-----------------------------------------------------------------------------
(* Claims about batch_scrape *)

Injections(n) == { f \in [1..n -> 1..n] : \A i, j \in 1..n : f[i] = f[j] => i = j }

\* C4: for every list of N domains, every width W >= 1 and every interleaving,
\* batch_scrape returns exactly N profiles, one per input domain (duplicates
\* included), each 'ok' or 'fail'; no pipeline's failure aborts the batch or drops
\* another domain's result (until it returns, the batch can always go on).
C4_OneResultPerDomain ==
    /\ bpc = "collect" => ENABLED BatchNext
    /\ Len(results) = Cardinality({ i \in 1..Len(tasks) : tasks[i].state = "collected" })
    /\ bpc = "returned" =>
          /\ Len(results) = Len(websites)
          /\ \A k \in 1..Len(results) : results[k].status \in {"ok", "fail"}
          /\ \E f \in Injections(Len(websites)) :
                \A i \in 1..Len(websites) : results[f[i]].domain = websites[i]

\* A returned batch of one worker thread with a duplicated domain, one pipeline
\* failed, the other not.
C4_Witness ==
    /\ bpc = "returned"
    /\ Len(websites) = 2
    /\ websites[1] = websites[2]
    /\ results[1].status = "ok"
    /\ results[2].status = "fail"
    /\ max_workers = 1

-----------------------------------------------------------------------------
(* Values of the profile records (JSON) and of the query *)

Null == [t |-> "null"]
Str(s) == [t |-> "str", v |-> s]
Num(n) == [t |-> "num", v |-> n]
List(xs) == [t |-> "list", v |-> xs]
Dict(f) == [t |-> "dict", v |-> f]

\* bool(v)
Truthy(v) ==
    CASE v.t = "null" -> FALSE
      [] v.t = "str"  -> v.v # <<>>
      [] v.t = "num"  -> v.v # 0
      [] v.t = "list" -> v.v # <<>>
      [] v.t = "dict" -> DOMAIN v.v # {}

\* d.get(k): the value under k, None when the key is missing
Get(d, k) == IF k \in DOMAIN d THEN d[k] ELSE Null

DigitChars == <<"0", "1", "2", "3", "4", "5", "6", "7", "8", "9">>

RECURSIVE Digits(_)
Digits(n) == IF n < 10 THEN <<DigitChars[n + 1]>>
             ELSE Digits(n \div 10) \o <<DigitChars[(n % 10) + 1]>>

\* str(v) of a string or a number
PyStr(v) ==
    CASE v.t = "str" -> v.v
      [] v.t = "num" -> IF v.v < 0 THEN <<"-">> \o Digits(0 - v.v) ELSE Digits(v.v)

UpperChars == <<"A", "B", "C", "I", "L", "M", "X", "Y", "Z">>
LowerChars == <<"a", "b", "c", "i", "l", "m", "x", "y", "z">>

LowerChar(c) ==
    IF \E k \in 1..Len(UpperChars) : UpperChars[k] = c
    THEN LowerChars[CHOOSE k \in 1..Len(UpperChars) : UpperChars[k] = c]
    ELSE c

\* s.lower()
Lower(s) == [k \in 1..Len(s) |-> LowerChar(s[k])]

\* for x in v: the items, or a TypeError when v is not iterable
Iter(v) ==
    CASE v.t = "list" -> [ok |-> TRUE, items |-> { v.v[k] : k \in 1..Len(v.v) }]
      [] v.t = "str"  -> [ok |-> TRUE, items |-> { Str(<<v.v[k]>>) : k \in 1..Len(v.v) }]
      [] v.t = "num"  -> [ok |-> FALSE, items |-> {}]
      [] v.t = "null" -> [ok |-> FALSE, items |-> {}]

-----------------------------------------------------------------------------
(* Scores: Python floats, held as exact fractions in lowest terms *)

RECURSIVE GCD(_, _)
GCD(a, b) == IF b = 0 THEN a ELSE GCD(b, a % b)

Frac(n, d) == LET g == GCD(n, d) IN [n |-> n \div g, d |-> d \div g]

Zero == Frac(0, 1)

RAdd(x, y) == Frac(x.n * y.d + y.n * x.d, x.d * y.d)

RGt(x, y) == x.n * y.d > y.n * x.d

RTwice(x) == Frac(2 * x.n, x.d)

\* max(xs) of a non-empty collection of scores
RMax(S) == CHOOSE x \in S : \A y \in S : ~RGt(y, x)

\* round(x, 3): to the nearest thousandth, an exact tie to the even one
Round3(x) ==
    LET q == (x.n * 1000) \div x.d
        r == (x.n * 1000) % x.d
    IN  IF 2 * r < x.d THEN Frac(q, 1000)
        ELSE IF 2 * r > x.d THEN Frac(q + 1, 1000)
        ELSE IF q % 2 = 0 THEN Frac(q, 1000) ELSE Frac(q + 1, 1000)

-----------------------------------------------------------------------------
(* string_similarity: difflib.SequenceMatcher(None, a, b).ratio() *)

RECURSIVE RunLen(_, _, _, _)
\* the length of the common run of a from i and b from j
RunLen(a, b, i, j) ==
    IF i <= Len(a) /\ j <= Len(b) /\ a[i] = b[j]
    THEN 1 + RunLen(a, b, i + 1, j + 1)
    ELSE 0

\* find_longest_match: the longest common block, the earliest in a, then in b
LongestMatch(a, b) ==
    LET blocks == { <<i, j>> \in (1..Len(a)) \X (1..Len(b)) : a[i] = b[j] }
        size(m) == RunLen(a, b, m[1], m[2])
        best == CHOOSE m \in blocks :
                    \A o \in blocks :
                        \/ size(o) < size(m)
                        \/ size(o) = size(m) /\ m[1] < o[1]
                        \/ size(o) = size(m) /\ m[1] = o[1] /\ m[2] <= o[2]
    IN  IF blocks = {} THEN [i |-> 0, j |-> 0, k |-> 0]
        ELSE [i |-> best[1], j |-> best[2], k |-> size(best)]

RECURSIVE MatchedChars(_, _)
\* get_matching_blocks: the total size of the blocks, found left and right of the longest
MatchedChars(a, b) ==
    LET m == LongestMatch(a, b)
    IN  IF m.k = 0 THEN 0
        ELSE m.k
             + MatchedChars(SubSeq(a, 1, m.i - 1), SubSeq(b, 1, m.j - 1))
             + MatchedChars(SubSeq(a, m.i + m.k, Len(a)), SubSeq(b, m.j + m.k, Len(b)))

\* ratio(): 2.0 * matches / (len(a) + len(b))
Ratio(a, b) == Frac(2 * MatchedChars(a, b), Len(a) + Len(b))

string_similarity(a, b) ==
    IF ~Truthy(a) \/ ~Truthy(b) THEN Zero
    ELSE Ratio(Lower(PyStr(a)), Lower(PyStr(b)))

-----------------------------------------------------------------------------
(* best_match *)

name_fields == <<"company_commercial_name", "company_legal_name",
                 "company_all_available_names", "name", "company_name">>

RECURSIVE NameScoreFrom(_, _, _)
\* lines 202-204, from the k-th name field on
NameScoreFrom(q, profile, k) ==
    IF k > Len(name_fields) THEN Zero
    ELSE LET f == name_fields[k]
             here == IF Truthy(Get(q, "name")) /\ f \in DOMAIN profile /\ Truthy(profile[f])
                     THEN RTwice(string_similarity(q["name"], profile[f]))
                     ELSE Zero
         IN  RAdd(here, NameScoreFrom(q, profile, k + 1))

NameScore(q, profile) == NameScoreFrom(q, profile, 1)

\* lines 205-206
DomainScore(q, profile) ==
    IF Truthy(Get(q, "domain")) /\ "domain" \in DOMAIN profile /\ Truthy(profile["domain"])
    THEN RTwice(string_similarity(q["domain"], profile["domain"]))
    ELSE Zero

PhoneScore_Sum(q, profile) ==
    IF Truthy(Get(q, "phone")) /\ Truthy(Get(profile, "phones"))
    THEN LET it == Iter(profile["phones"])
             RECURSIVE SumOver(_)
             SumOver(S) == IF S = {} THEN Zero
                           ELSE LET x == CHOOSE x \in S : TRUE
                                IN  RAdd(string_similarity(q["phone"], x), SumOver(S \ {x}))
         IN  IF it.ok THEN SumOver(it.items) ELSE Zero
    ELSE Zero

\* lines 207-211: an exception inside the try leaves the score as it was
PhoneScore(q, profile) ==
    IF Truthy(Get(q, "phone")) /\ Truthy(Get(profile, "phones"))
    THEN LET it == Iter(profile["phones"])
         IN  IF it.ok
             THEN RMax({ string_similarity(q["phone"], x) : x \in it.items } \cup {Zero})
             ELSE Zero
    ELSE Zero

\* lines 212-218: no try here, an exception leaves best_match
FacebookScore(q, profile) ==
    IF Truthy(Get(q, "facebook"))
    THEN LET got == Get(profile, "social_links")
             social_links == IF got.t = "dict" THEN got.v ELSE <<>>
             fb_links == Get(social_links, "facebook")
         IN  IF Truthy(fb_links)
             THEN LET it == Iter(fb_links)
                  IN  IF it.ok
                      THEN [raised |-> FALSE,
                            score  |-> RMax({ string_similarity(q["facebook"], x) :
                                                x \in it.items } \cup {Zero})]
                      ELSE [raised |-> TRUE, score |-> Zero]
             ELSE [raised |-> FALSE, score |-> Zero]
    ELSE [raised |-> FALSE, score |-> Zero]

\* The body of the loop up to line 218: the profile's score, or an exception.
ProfileScore(q, profile) ==
    LET fb == FacebookScore(q, profile)
    IN  [raised |-> fb.raised,
         score  |-> RAdd(RAdd(NameScore(q, profile), DomainScore(q, profile)),
                         RAdd(PhoneScore(q, profile), fb.score))]

RECURSIVE BestFrom_NotStrict(_, _, _, _, _)
BestFrom_NotStrict(q, profiles, k, best_profile, best_score) ==
    IF k > Len(profiles)
    THEN [raised |-> FALSE, profile |-> best_profile, score |-> best_score]
    ELSE LET s == ProfileScore(q, profiles[k])
         IN  IF s.raised THEN [raised |-> TRUE, profile |-> Null, score |-> Zero]
             ELSE IF ~RGt(best_score, s.score)
             THEN BestFrom_NotStrict(q, profiles, k + 1, Dict(profiles[k]), s.score)
             ELSE BestFrom_NotStrict(q, profiles, k + 1, best_profile, best_score)

RECURSIVE BestFrom(_, _, _, _, _)
\* The loop of lines 199-221 from the k-th profile on, and line 222.
BestFrom(q, profiles, k, best_profile, best_score) ==
    IF k > Len(profiles)
    THEN [raised |-> FALSE, profile |-> best_profile, score |-> best_score]
    ELSE LET s == ProfileScore(q, profiles[k])
         IN  IF s.raised THEN [raised |-> TRUE, profile |-> Null, score |-> Zero]
             ELSE IF RGt(s.score, best_score)
             THEN BestFrom(q, profiles, k + 1, Dict(profiles[k]), s.score)
             ELSE BestFrom(q, profiles, k + 1, best_profile, best_score)

best_match(q, profiles) == BestFrom(q, profiles, 1, Null, Zero)

-----------------------------------------------------------------------------
(* company_search *)

NoMatchFound == [error |-> "No match found"]

\* lines 239-244; an exception leaving the handler is answered with status 500
Response(r) ==
    IF r.raised THEN [status |-> 500, body |-> <<>>]
    ELSE IF Truthy(r.profile)
    THEN [status |-> 200, body |-> ("match_score" :> Round3(r.score)) @@ r.profile.v]
    ELSE [status |-> 200, body |-> NoMatchFound]

CompanySearch(name, domain, phone, facebook) ==
    /\ mpc = "ready"
    /\ LET q == [name |-> name, domain |-> domain, phone |-> phone, facebook |-> facebook]
           r == best_match(q, PROFILES)
       IN  /\ query' = q
           /\ ret' = r
           /\ resp' = Response(r)
    /\ mpc' = "done"
    /\ UNCHANGED <<PROFILES, scrapeVars, batchVars, addrVars>>

-----------------------------------------------------------------------------
(* Inputs of the matcher *)

s_abc_com == <<"a", "b", "c", ".", "c", "o", "m">>
s_ABC_com == <<"A", "B", "C", ".", "c", "o", "m">>
s_abd_com == <<"a", "b", "d", ".", "c", "o", "m">>
s_xyz_com == <<"x", "y", "z", ".", "c", "o", "m">>
s_Acme == <<"A", "c", "m", "e">>
s_acme == <<"a", "c", "m", "e">>
s_Acme_Inc == <<"A", "c", "m", "e", " ", "I", "n", "c", ".">>
s_Xyz == <<"X", "y", "z">>
s_Xyz_LLC == <<"X", "y", "z", " ", "L", "L", "C">>
s_p1 == <<"+", "1">>
s_p2 == <<"+", "2">>
s_p12 == <<"+", "1", "2">>
s_fb_x == <<"f", "b", "/", "x">>
s_fb_xy == <<"f", "b", "/", "x", "y">>

\* Records as prepare_data persists them: the company columns merged with the
\* scraped fields; a field the merge left empty is null.
StoredProfiles ==
    { [domain |-> Str(s_abc_com), phones |-> List(<<Str(s_p1)>>),
       company_commercial_name |-> Str(s_Acme), company_legal_name |-> Str(s_Acme_Inc),
       social_links |-> Dict(<<>>)],
      [domain |-> Str(s_xyz_com), phones |-> List(<<Str(s_p2)>>),
       company_commercial_name |-> Str(s_Xyz), company_legal_name |-> Str(s_Xyz_LLC),
       social_links |-> Dict([facebook |-> List(<<Str(s_fb_xy)>>)])],
      [domain |-> Str(s_ABC_com), phones |-> List(<<Str(s_p1), Str(s_p2)>>),
       company_commercial_name |-> Str(s_acme), company_legal_name |-> Null,
       social_links |-> Dict([facebook |-> List(<<Str(s_fb_xy), Str(s_fb_x)>>)])],
      [domain |-> Str(s_abd_com), phones |-> Null,
       company_commercial_name |-> Null, company_legal_name |-> Null,
       social_links |-> Null],
      [domain |-> Str(s_xyz_com), phones |-> List(<<Str(s_p12)>>),
       company_commercial_name |-> Str(s_Xyz), company_legal_name |-> Null,
       social_links |-> Dict(<<>>)] }

\* Request parameters: absent (None), empty, or a string.
NameParams == {Null, Str(<<>>), Str(s_acme)}
DomainParams == {Null, Str(s_abc_com), Str(s_abd_com)}
PhoneParams == {Null, Str(s_p2), Str(s_p12)}
FacebookParams == {Null, Str(s_fb_x)}

MatchNext ==
    \E name \in NameParams, domain \in DomainParams,
       phone \in PhoneParams, facebook \in FacebookParams :
        CompanySearch(name, domain, phone, facebook)

MatchInit ==
    /\ ScrapeIdle
    /\ BatchIdle
    /\ AddrIdle
    /\ PROFILES \in SeqsUpTo(StoredProfiles, MaxProfiles)
    /\ query = <<>>
    /\ ret = <<>>
    /\ resp = <<>>
    /\ mpc = "ready"

SpecMatch == MatchInit /\ [][MatchNext]_vars

\* Records with malformed or missing secondary fields.
MalformedProfiles ==
    { [domain |-> Str(s_abc_com), phones |-> Num(5),
       company_commercial_name |-> Str(s_Acme),
       social_links |-> List(<<Str(s_fb_x)>>)],
      [domain |-> Str(s_xyz_com), phones |-> List(<<Null, Str(s_p2)>>),
       social_links |-> Dict([facebook |-> Num(5)])],
      [domain |-> Str(s_abd_com), phones |-> Str(s_p12),
       social_links |-> Dict([facebook |-> Null])],
      [domain |-> Str(s_abc_com)],
      [domain |-> Str(s_xyz_com), phones |-> List(<<Str(s_p2)>>),
       social_links |-> Dict([facebook |-> List(<<Null, Str(s_fb_x)>>)])] }

MalformedInit ==
    /\ ScrapeIdle
    /\ BatchIdle
    /\ AddrIdle
    /\ PROFILES \in SeqsUpTo(MalformedProfiles, MaxProfiles)
    /\ query = <<>>
    /\ ret = <<>>
    /\ resp = <<>>
    /\ mpc = "ready"

SpecMalformed == MalformedInit /\ [][MatchNext]_vars

-----------------------------------------------------------------------------
(* Claims about best_match and company_search *)

Searched == mpc = "done"

OnlyDomain(q) ==
    Truthy(q.domain) /\ ~Truthy(q.name) /\ ~Truthy(q.phone) /\ ~Truthy(q.facebook)

OnlyPhone(q) ==
    Truthy(q.phone) /\ ~Truthy(q.name) /\ ~Truthy(q.domain) /\ ~Truthy(q.facebook)

\* C1: when some profile's domain equals the query domain exactly and domain is
\* the query's only populated field, the profile returned has that domain and the
\* reported score (match_score) is 100.0.
C1_ExactDomainReports100 ==
    ( /\ Searched
      /\ OnlyDomain(query)
      /\ \E k \in 1..Len(PROFILES) : Get(PROFILES[k], "domain") = query.domain ) =>
        /\ ~ret.raised
        /\ ret.profile # Null
        /\ ret.profile.v["domain"] = query.domain
        /\ resp.status = 200
        /\ resp.body["match_score"] = Frac(100, 1)

\* C2: best_match returns the earliest profile whose score equals the maximum
\* score over the collection, provided that maximum is strictly greater than 0;
\* when every profile scores 0 it returns an absent profile with score 0.
C2_EarliestMaximum ==
    Searched =>
        LET idx == 1..Len(PROFILES)
            score(k) == ProfileScore(query, PROFILES[k]).score
        IN  /\ ~ret.raised
            /\ IF \E k \in idx : RGt(score(k), Zero)
               THEN \E k \in idx :
                       /\ \A j \in idx : ~RGt(score(j), score(k))
                       /\ \A j \in idx : j < k => RGt(score(k), score(j))
                       /\ ret.profile = Dict(PROFILES[k])
                       /\ ret.score = score(k)
               ELSE ret.profile = Null /\ ret.score = Zero

\* Two different profiles tie at the maximum; the earlier one is returned.
C2_Witness ==
    /\ Searched
    /\ Len(PROFILES) = 2
    /\ PROFILES[1] # PROFILES[2]
    /\ ProfileScore(query, PROFILES[1]).score = ProfileScore(query, PROFILES[2]).score
    /\ RGt(ret.score, Zero)
    /\ ret.profile = Dict(PROFILES[1])

\* C6: a request that carries none of the parameters name, domain, phone,
\* facebook is rejected with HTTP 400.
C6_NoParamsRejected ==
    ( /\ Searched
      /\ query.name = Null /\ query.domain = Null
      /\ query.phone = Null /\ query.facebook = Null ) => resp.status = 400

\* The phones of a stored profile.
PhonesOf(profile) ==
    LET ph == Get(profile, "phones")
    IN  IF ph.t = "list" THEN { ph.v[k] : k \in 1..Len(ph.v) } ELSE {}

C7_MalformedNeverRaises ==
    Searched => ~ret.raised /\ resp.status = 200

-----------------------------------------------------------------------------
(* extract_address *)

NoTag == <<>>
NoAddress == <<>>

\* len(text)
TextLen(text) == text.len

RECURSIVE FirstAccepted(_)
\* the loops of lines 77-80 and 81-84: the first tag whose text is accepted
FirstAccepted(tags) ==
    IF tags = <<>> THEN NoAddress
    ELSE IF ADDRESS_MIN < TextLen(Head(tags)) /\ TextLen(Head(tags)) < TEXT_MAX
    THEN Head(tags)
    ELSE FirstAccepted(Tail(tags))

extract_address_FooterAsAddress(page) ==
    IF page.footer # NoTag /\ ADDRESS_MIN < TextLen(page.footer)
                           /\ TextLen(page.footer) < TEXT_MAX
    THEN page.footer
    ELSE IF page.address # NoTag /\ ADDRESS_MIN < TextLen(page.address)
                                 /\ TextLen(page.address) < TEXT_MAX
    THEN page.address
    ELSE IF FirstAccepted(page.by_class) # NoAddress
    THEN FirstAccepted(page.by_class)
    ELSE FirstAccepted(page.by_id)

\* lines 66-85
extract_address(page) ==
    IF page.footer # NoTag /\ FOOTER_MIN < TextLen(page.footer)
                           /\ TextLen(page.footer) < TEXT_MAX
    THEN page.footer
    ELSE IF page.address # NoTag /\ ADDRESS_MIN < TextLen(page.address)
                                 /\ TextLen(page.address) < TEXT_MAX
    THEN page.address
    ELSE IF FirstAccepted(page.by_class) # NoAddress
    THEN FirstAccepted(page.by_class)
    ELSE FirstAccepted(page.by_id)

ExtractAddress ==
    /\ apc = "ready"
    /\ addr' = extract_address(soup)
    /\ apc' = "done"
    /\ UNCHANGED <<soup, scrapeVars, batchVars, matchVars>>

\* Lengths of the visible text of a tag, around the limits of the rules.
FooterLens == {0, ADDRESS_MIN + 1, FOOTER_MIN, FOOTER_MIN + 1, TEXT_MAX - 1, TEXT_MAX}
AddressLens == {0, ADDRESS_MIN, ADDRESS_MIN + 1, TEXT_MAX - 1, TEXT_MAX}
TagLens == {ADDRESS_MIN, ADDRESS_MIN + 1, TEXT_MAX}

\* The texts of the k-th tags a find_all returned
Texts(src, lens) == [k \in 1..Len(lens) |-> [src |-> src, pos |-> k, len |-> lens[k]]]

Pages ==
    { [footer |-> f, address |-> a, by_class |-> Texts("class", c), by_id |-> Texts("id", i)] :
        f \in {NoTag} \cup { [src |-> "footer", pos |-> 1, len |-> n] : n \in FooterLens },
        a \in {NoTag} \cup { [src |-> "address", pos |-> 1, len |-> n] : n \in AddressLens },
        c \in SeqsUpTo(TagLens, MaxTags),
        i \in SeqsUpTo(TagLens, MaxTags) }

AddrInit ==
    /\ ScrapeIdle
    /\ BatchIdle
    /\ MatchIdle
    /\ soup \in Pages
    /\ addr = NoAddress
    /\ apc = "ready"

SpecAddr == AddrInit /\ [][ExtractAddress]_vars

-----------------------------------------------------------------------------
(* Claims about extract_address *)

Within(text, lo, hi) == text # NoTag /\ lo < text.len /\ text.len < hi

=============================================================================
